---- MODULE Spec2Model ----
(***************************************************************************)
(* Model of src/renderer/framework/gpu_program.rs: shader source           *)
(* preparation, stage compilation, program linking, uniform lookup,        *)
(* uniform upload and program destruction, together with the part of the   *)
(* OpenGL context and of the graphics State these operations talk to.      *)
(*                                                                         *)
(* Text is modelled as a sequence of byte values.  Every operation is one  *)
(* action; the variables op, result, lastCalls and logWritten describe the *)
(* operation that ran last (its arguments and the answers of the driver,   *)
(* what it returned, the native calls it issued in order, and the entries  *)
(* it wrote to the process log).                                           *)
(***************************************************************************)
EXTENDS Naturals, Integers, Sequences, FiniteSets, TLC

VARIABLES
    glShaders,   \* native shader objects created and not yet deleted
    glPrograms,  \* native program objects: id -> [live, uniforms]
    progs,       \* the GpuProgram values ever returned: <<[id, name_buf, alive, deletes]>>
    locations,   \* the ids of the UniformLocation values handed out so far
    state,       \* the graphics State: [program, units]
    nCalls,      \* number of from_source / create_shader calls made so far
    op,          \* the last operation and its inputs
    result,      \* what the last operation returned
    lastCalls,   \* native calls issued by the last operation, in order
    logWritten   \* entries the last operation wrote to the process log

vars == <<glShaders, glPrograms, progs, locations, state, nCalls,
          op, result, lastCalls, logWritten>>

(***************************************************************************)
(* Bounds of the model.                                                    *)
(***************************************************************************)
MaxLen == 4          \* longest source text given to prepare_source_code
MaxCalls == 2        \* from_source calls per behaviour
MaxLogLen == 2       \* longest info log text the driver reports

(***************************************************************************)
(* Bytes that the code treats specially.                                   *)
(***************************************************************************)
NUL == 0
NL == 10
HASH == 35

Alphabet == {NUL, NL, HASH, 120}

RECURSIVE SeqsUpTo(_, _)
SeqsUpTo(S, n) ==
    IF n = 0 THEN {<<>>}
    ELSE LET shorter == SeqsUpTo(S, n - 1)
         IN  shorter \cup {Append(s, c) : s \in {t \in shorter : Len(t) = n - 1}, c \in S}

Sources == SeqsUpTo(Alphabet, MaxLen)

Contains(s, c) == \E i \in 1..Len(s) : s[i] = c

\* str::rfind(c): 1-based index of the last occurrence, 0 for None
rfind(s, c) ==
    IF Contains(s, c)
    THEN CHOOSE i \in 1..Len(s) : s[i] = c /\ \A j \in (i + 1)..Len(s) : s[j] # c
    ELSE 0

\* s[p..].find(c): offset (0-based) of the first occurrence at or after the
\* 1-based index p, -1 for None
find_from(s, p, c) ==
    IF \E i \in p..Len(s) : s[i] = c
    THEN (CHOOSE i \in p..Len(s) : s[i] = c /\ \A j \in p..(i - 1) : s[j] # c) - p
    ELSE -1

\* String::insert_str(idx, t) with a 0-based byte index
insert_str(s, idx, t) == SubSeq(s, 1, idx) \o t \o SubSeq(s, idx + 1, Len(s))

\* include_str!("../shaders/shared.glsl"): the bundled text, abbreviated
SharedGlsl == <<115>>

\* the shared block: opening marker comment, bundled text, closing marker
shared == <<NL, 47, 47, NL>> \o SharedGlsl \o <<NL, 47, 47, NL>>

NoResult == [kind |-> "none", name |-> "", message |-> <<>>, value |-> <<>>]

Ok(v) == [kind |-> "Ok", name |-> "", message |-> <<>>, value |-> v]

Err(k, n, m) == [kind |-> k, name |-> n, message |-> m, value |-> <<>>]

Panic == [kind |-> "panic", name |-> "", message |-> <<>>, value |-> <<>>]

\* CString::new(text)?: the bytes plus the terminating zero, or the NulError
\* that `?` converts into a RendererError
CStringNew(text) ==
    IF Contains(text, NUL)
    THEN Err("EncodingError", "", <<>>)
    ELSE Ok(Append(text, NUL))

prepare_source_code(code) ==
    LET p == rfind(code, HASH)
    IN  IF p # 0
        THEN LET nl == find_from(code, p, NL)
             IN  IF nl < 0
                 THEN Panic                         \* Option::unwrap on None
                 ELSE CStringNew(insert_str(code, (p - 1) + nl + 1, shared))
        ELSE CStringNew(shared \o code)

(***************************************************************************)
(* The OpenGL context, as far as these operations use it.                  *)
(***************************************************************************)
Names == {"p", "q"}                       \* program names given by the engine

InfoLogs == SeqsUpTo({101, 114}, MaxLogLen)   \* info log texts; <<>>: no log

ProgramIds == 1..MaxCalls                 \* names the driver hands out

\* the active uniforms a linked program may end up with: the location of a
\* name is its position in the table, counted from 0
Tables == {<< <<117>>, <<117, 118>> >>, << <<117, 118>> >>}

\* the uniform names the engine asks for: "u", "uv", and "w\0u"
UniformNames == {<<117>>, <<117, 118>>, <<119, NUL, 117>>}

Min(a, b) == IF a < b THEN a ELSE b

\* gl::CreateShader / gl::CreateProgram: a name that is not in use; the
\* driver hands out the lowest one
NewName(used) ==
    CHOOSE n \in 1..(Cardinality(used) + 1) :
        n \notin used /\ \A m \in 1..(n - 1) : m \in used

LivePrograms(programs) == {id \in DOMAIN programs : programs[id].live}

\* gl::GetShaderiv / gl::GetProgramiv with INFO_LOG_LENGTH: the number of
\* characters of the log including the terminating zero, 0 without a log
InfoLogLength(infoLog) == IF infoLog = <<>> THEN 0 ELSE Len(infoLog) + 1

\* gl::GetShaderInfoLog / gl::GetProgramInfoLog: the bytes the driver stores
\* at the pointer: at most maxLength, the terminating zero included
GetInfoLog(infoLog, maxLength) ==
    IF maxLength = 0 THEN <<>>
    ELSE Append(SubSeq(infoLog, 1, Min(Len(infoLog), maxLength - 1)), NUL)

\* String::from_utf8_unchecked(buffer) for a Vec<u8> of length len whose
\* storage holds the bytes mem: the first len bytes
from_utf8_unchecked(len, mem) == SubSeq(mem, 1, len)

Call(f, a) == [fn |-> f, args |-> a]

DeadProgram == [live |-> FALSE, linked |-> FALSE, uniforms |-> <<>>]

\* create_shader without buffer.set_len(log_len)
create_shader_unsized(name, actual_type, source, shaders, status, infoLog) ==
    LET csource == prepare_source_code(source)
        shader == NewName(shaders)
        compile == << Call("CreateShader", <<actual_type, shader>>),
                      Call("ShaderSource", <<shader, csource.value>>),
                      Call("CompileShader", <<shader>>),
                      Call("GetShaderiv", <<shader, "COMPILE_STATUS">>) >>
        log_len == InfoLogLength(infoLog)
        buffer_len == 0
        compilation_message ==
            from_utf8_unchecked(buffer_len, GetInfoLog(infoLog, log_len))
    IN  IF csource.kind # "Ok"
        THEN [result |-> csource, shaders |-> shaders, calls |-> <<>>, log |-> <<>>]
        ELSE IF status = 0
        THEN [result |-> Err("ShaderCompilationFailed", name, compilation_message),
              shaders |-> shaders \cup {shader},
              calls |-> compile \o
                  << Call("GetShaderiv", <<shader, "INFO_LOG_LENGTH">>),
                     Call("GetShaderInfoLog", <<shader, log_len>>) >>,
              log |-> << <<"Failed to compile ", name, " shader: ",
                           compilation_message>> >>]
        ELSE [result |-> Ok(shader),
              shaders |-> shaders \cup {shader},
              calls |-> compile,
              log |-> << <<"Shader ", name, " compiled!">> >>]

(***************************************************************************)
(* create_shader(name, actual_type, source); status and infoLog are the    *)
(* driver's compile status and info log for this source.                   *)
(***************************************************************************)
create_shader(name, actual_type, source, shaders, status, infoLog) ==
    LET csource == prepare_source_code(source)
        shader == NewName(shaders)
        compile == << Call("CreateShader", <<actual_type, shader>>),
                      Call("ShaderSource", <<shader, csource.value>>),
                      Call("CompileShader", <<shader>>),
                      Call("GetShaderiv", <<shader, "COMPILE_STATUS">>) >>
        log_len == InfoLogLength(infoLog)
        \* Vec::with_capacity(log_len) followed by set_len(log_len)
        buffer_len == log_len
        compilation_message ==
            from_utf8_unchecked(buffer_len, GetInfoLog(infoLog, log_len))
    IN  IF csource.kind # "Ok"
        THEN [result |-> csource, shaders |-> shaders, calls |-> <<>>, log |-> <<>>]
        ELSE IF status = 0
        THEN [result |-> Err("ShaderCompilationFailed", name, compilation_message),
              shaders |-> shaders \cup {shader},
              calls |-> compile \o
                  << Call("GetShaderiv", <<shader, "INFO_LOG_LENGTH">>),
                     Call("GetShaderInfoLog", <<shader, log_len>>) >>,
              log |-> << <<"Failed to compile ", name, " shader: ",
                           compilation_message>> >>]
        ELSE [result |-> Ok(shader),
              shaders |-> shaders \cup {shader},
              calls |-> compile,
              log |-> << <<"Shader ", name, " compiled!">> >>]

(***************************************************************************)
(* GpuProgram::from_source(name, vertex_source, fragment_source); env      *)
(* holds the driver's answers: compile status and info log of each stage,  *)
(* the link status, the link info log and the uniforms of the linked      *)
(* program.                                                                *)
(***************************************************************************)
NewGpuProgram(id) == [id |-> id, name_buf |-> <<>>, alive |-> TRUE, deletes |-> 0]

\* the calls of from_source with the stage handles deleted after the link
link_calls_late_delete(program, vertex_shader, fragment_shader) ==
    << Call("CreateProgram", <<program>>),
       Call("AttachShader", <<program, vertex_shader>>),
       Call("AttachShader", <<program, fragment_shader>>),
       Call("LinkProgram", <<program>>),
       Call("DeleteShader", <<vertex_shader>>),
       Call("DeleteShader", <<fragment_shader>>),
       Call("GetProgramiv", <<program, "LINK_STATUS">>) >>

\* the calls of from_source from gl::CreateProgram to the read of the link
\* status
link_calls(program, vertex_shader, fragment_shader) ==
    << Call("CreateProgram", <<program>>),
       Call("AttachShader", <<program, vertex_shader>>),
       Call("DeleteShader", <<vertex_shader>>),
       Call("AttachShader", <<program, fragment_shader>>),
       Call("DeleteShader", <<fragment_shader>>),
       Call("LinkProgram", <<program>>),
       Call("GetProgramiv", <<program, "LINK_STATUS">>) >>

from_source(name, vertex_source, fragment_source, shaders, programs, env) ==
    LET v == create_shader(name \o "_VertexShader", "VERTEX_SHADER",
                           vertex_source, shaders, env.vStatus, env.vLog)
        f == create_shader(name \o "_FragmentShader", "FRAGMENT_SHADER",
                           fragment_source, v.shaders, env.fStatus, env.fLog)
        vertex_shader == v.result.value
        fragment_shader == f.result.value
        program == NewName(LivePrograms(programs))
        link == link_calls(program, vertex_shader, fragment_shader)
        linked == [programs EXCEPT ![program] =
                      [live |-> TRUE, linked |-> env.linkStatus # 0,
                       uniforms |-> env.uniforms]]
        log_len == InfoLogLength(env.linkLog)
        \* Vec::with_capacity(log_len): the length of the vector stays 0
        buffer_len == 0
        error_message ==
            from_utf8_unchecked(buffer_len, GetInfoLog(env.linkLog, log_len))
    IN  IF v.result.kind # "Ok"
        THEN [result |-> v.result, shaders |-> v.shaders, programs |-> programs,
              calls |-> v.calls, log |-> v.log, created |-> <<>>]
        ELSE IF f.result.kind # "Ok"
        THEN [result |-> f.result, shaders |-> f.shaders, programs |-> programs,
              calls |-> v.calls \o f.calls, log |-> v.log \o f.log,
              created |-> <<>>]
        ELSE IF env.linkStatus = 0
        THEN [result |-> Err("ShaderLinkingFailed", name, error_message),
              shaders |-> f.shaders \ {vertex_shader, fragment_shader},
              programs |-> linked,
              calls |-> v.calls \o f.calls \o link \o
                  << Call("GetProgramiv", <<program, "INFO_LOG_LENGTH">>),
                     Call("GetProgramInfoLog", <<program, log_len>>) >>,
              log |-> v.log \o f.log, created |-> <<>>]
        ELSE [result |-> Ok(program),
              shaders |-> f.shaders \ {vertex_shader, fragment_shader},
              programs |-> linked,
              calls |-> v.calls \o f.calls \o link,
              log |-> v.log \o f.log,
              created |-> <<NewGpuProgram(program)>>]

(***************************************************************************)
(* Initial state: an OpenGL context with no objects, nothing bound.        *)
(***************************************************************************)
NoOp == [name |-> "none"]

SamplerIndices == {0, 2}                  \* texture units the engine samples from

Textures == {1, 2}                        \* texture resources of the engine

Init ==
    /\ glShaders = {}
    /\ glPrograms = [id \in ProgramIds |-> DeadProgram]
    /\ progs = <<>>
    /\ locations = {}
    /\ state = [program |-> 0, units |-> [i \in SamplerIndices |-> 0]]
    /\ nCalls = 0
    /\ op = NoOp
    /\ result = NoResult
    /\ lastCalls = <<>>
    /\ logWritten = <<>>

(***************************************************************************)
(* prepare_source_code applied to an arbitrary source text.                *)
(***************************************************************************)
PrepareSourceCode ==
    \E code \in Sources :
        /\ op' = [name |-> "prepare_source_code", code |-> code]
        /\ result' = prepare_source_code(code)
        /\ lastCalls' = <<>>
        /\ logWritten' = <<>>
        /\ UNCHANGED <<glShaders, glPrograms, progs, locations, state, nCalls>>

NextPrepare == PrepareSourceCode

SpecPrepare == Init /\ [][NextPrepare]_vars

(***************************************************************************)
(* The sources the stages are compiled from: plain code, code after a      *)
(* directive line, a directive without a line end, code with a zero byte.  *)
(***************************************************************************)
StageSources == {<<120>>, <<HASH, NL, 120>>, <<HASH, 120>>, <<120, NUL>>}

Prepares(source) == prepare_source_code(source).kind = "Ok"

\* the driver's answers a call can observe: a compile status is read only
\* for a source that was prepared, an info log only after a failure
StatusFor(reached) == IF reached THEN {0, 1} ELSE {1}

InfoLogFor(status) == IF status = 0 THEN InfoLogs ELSE {<<>>}

(***************************************************************************)
(* create_shader applied to one stage.                                     *)
(***************************************************************************)
CreateShader ==
    /\ nCalls < MaxCalls
    /\ \E name \in Names, kind \in {"Vertex", "Fragment"}, source \in StageSources :
       \E status \in StatusFor(Prepares(source)) :
       \E infoLog \in InfoLogFor(status) :
          LET stage == name \o "_" \o kind \o "Shader"
              actual_type == IF kind = "Vertex" THEN "VERTEX_SHADER"
                             ELSE "FRAGMENT_SHADER"
              r == create_shader(stage, actual_type, source, glShaders,
                                 status, infoLog)
          IN  /\ op' = [name |-> "create_shader", stage |-> stage,
                        source |-> source, status |-> status,
                        infoLog |-> infoLog]
              /\ result' = r.result
              /\ glShaders' = r.shaders
              /\ lastCalls' = r.calls
              /\ logWritten' = r.log
              /\ nCalls' = nCalls + 1
              /\ UNCHANGED <<glPrograms, progs, locations, state>>

NextStage == CreateShader

SpecStage == Init /\ [][NextStage]_vars

(***************************************************************************)
(* GpuProgram::from_source called by the engine.                           *)
(***************************************************************************)
FromSourceOn(names, sources, infoLogs) ==
    /\ nCalls < MaxCalls
    /\ \E name \in names, vertex_source \in sources :
       \E vStatus \in StatusFor(Prepares(vertex_source)) :
       \E vLog \in (IF vStatus = 0 THEN infoLogs ELSE {<<>>}) :
       \E fragment_source \in
             (IF Prepares(vertex_source) /\ vStatus = 1 THEN sources ELSE {<<>>}) :
       \E fStatus \in StatusFor(Prepares(vertex_source) /\ vStatus = 1
                                  /\ Prepares(fragment_source)) :
       \E fLog \in (IF fStatus = 0 THEN infoLogs ELSE {<<>>}) :
          LET compiled == /\ Prepares(vertex_source) /\ vStatus = 1
                          /\ Prepares(fragment_source) /\ fStatus = 1
          IN  \E linkStatus \in StatusFor(compiled) :
              \E linkLog \in (IF linkStatus = 0 THEN infoLogs ELSE {<<>>}) :
              \E uniforms \in (IF compiled /\ linkStatus = 1 THEN Tables ELSE {<<>>}) :
                 LET env == [vStatus |-> vStatus, vLog |-> vLog,
                             fStatus |-> fStatus, fLog |-> fLog,
                             linkStatus |-> linkStatus,
                             linkLog |-> linkLog, uniforms |-> uniforms]
                     r == from_source(name, vertex_source, fragment_source,
                                      glShaders, glPrograms, env)
                 IN  /\ op' = [name |-> "from_source", program_name |-> name,
                               vertex_source |-> vertex_source,
                               fragment_source |-> fragment_source, env |-> env]
                     /\ result' = r.result
                     /\ glShaders' = r.shaders
                     /\ glPrograms' = r.programs
                     /\ progs' = progs \o r.created
                     /\ lastCalls' = r.calls
                     /\ logWritten' = r.log
                     /\ nCalls' = nCalls + 1
                     /\ UNCHANGED <<locations, state>>

\* the engine builds programs from any of the sources
FromSource == FromSourceOn(Names, StageSources, InfoLogs)

\* the engine builds programs from sources that can be prepared
FromGoodSource == FromSourceOn({"p"}, {<<HASH, NL, 120>>}, {<<101>>})

\* the engine builds programs that compile and link
FromLinkedSource ==
    /\ nCalls < MaxCalls
    /\ \E uniforms \in {<< <<117>>, <<117, 118>> >>} :
          LET env == [vStatus |-> 1, vLog |-> <<>>, fStatus |-> 1, fLog |-> <<>>,
                      linkStatus |-> 1, linkLog |-> <<>>, uniforms |-> uniforms]
              r == from_source("p", <<120>>, <<120>>, glShaders, glPrograms, env)
          IN  /\ op' = [name |-> "from_source", program_name |-> "p",
                        vertex_source |-> <<120>>, fragment_source |-> <<120>>,
                        env |-> env]
              /\ result' = r.result
              /\ glShaders' = r.shaders
              /\ glPrograms' = r.programs
              /\ progs' = progs \o r.created
              /\ lastCalls' = r.calls
              /\ logWritten' = r.log
              /\ nCalls' = nCalls + 1
              /\ UNCHANGED <<locations, state>>

(***************************************************************************)
(* GpuProgram::uniform_location(&self, name)                               *)
(***************************************************************************)
\* the C string the driver reads at a pointer to bytes: up to the first zero
CStr(bytes) ==
    IF Contains(bytes, NUL)
    THEN SubSeq(bytes, 1, find_from(bytes, 1, NUL))
    ELSE bytes

\* gl::GetUniformLocation(program, name): -1 unless name is an active
\* uniform of the linked program
GetUniformLocation(programs, program, bytes) ==
    LET p == programs[program]
        found == {i \in 1..Len(p.uniforms) : p.uniforms[i] = CStr(bytes)}
    IN  IF p.live /\ p.linked /\ found # {}
        THEN (CHOOSE i \in found : TRUE) - 1
        ELSE -1

\* uniform_location without the test of the sign of the location
uniform_location_unchecked(self, name, programs) ==
    LET cleared == <<>>                       \* buf.clear()
        extended == cleared \o name           \* buf.extend_from_slice(..)
        buf == Append(extended, NUL)          \* buf.push(0)
        id == GetUniformLocation(programs, self.id, buf)
    IN  [self |-> [self EXCEPT !.name_buf = buf],
         calls |-> << Call("GetUniformLocation", <<self.id, buf>>) >>,
         result |-> Ok(id)]

\* uniform_location without buf.clear()
uniform_location_unclear(self, name, programs) ==
    LET cleared == self.name_buf
        extended == cleared \o name           \* buf.extend_from_slice(..)
        buf == Append(extended, NUL)          \* buf.push(0)
        id == GetUniformLocation(programs, self.id, buf)
    IN  [self |-> [self EXCEPT !.name_buf = buf],
         calls |-> << Call("GetUniformLocation", <<self.id, buf>>) >>,
         result |-> IF id < 0
                    THEN Err("UnableToFindShaderUniform", name, <<>>)
                    ELSE Ok(id)]

uniform_location(self, name, programs) ==
    LET cleared == <<>>                       \* buf.clear()
        extended == cleared \o name           \* buf.extend_from_slice(..)
        buf == Append(extended, NUL)          \* buf.push(0)
        id == GetUniformLocation(programs, self.id, buf)
    IN  [self |-> [self EXCEPT !.name_buf = buf],
         calls |-> << Call("GetUniformLocation", <<self.id, buf>>) >>,
         result |-> IF id < 0
                    THEN Err("UnableToFindShaderUniform", name, <<>>)
                    ELSE Ok(id)]

Alive == {i \in 1..Len(progs) : progs[i].alive}

UniformLocationOn(names) ==
    \E i \in Alive, name \in names :
        LET r == uniform_location(progs[i], name, glPrograms)
        IN  /\ op' = [name |-> "uniform_location", prog |-> i, uniform |-> name,
                      name_buf |-> progs[i].name_buf]
            /\ result' = r.result
            /\ progs' = [progs EXCEPT ![i] = r.self]
            /\ locations' = IF r.result.kind = "Ok"
                            THEN locations \cup {r.result.value}
                            ELSE locations
            /\ lastCalls' = r.calls
            /\ logWritten' = <<>>
            /\ UNCHANGED <<glShaders, glPrograms, state, nCalls>>

UniformLocation == UniformLocationOn(UniformNames)

\* the engine resolves the uniform "uv"
ResolveUniform == UniformLocationOn({<<117, 118>>})

(***************************************************************************)
(* The graphics State and the texture, which this file only calls.         *)
(***************************************************************************)
\* State::set_program(program): records the program as the current one
set_program(st, program) == [st EXCEPT !.program = program]

\* GpuTexture::bind(state, index): records the texture at the unit
texture_bind(st, texture, index) == [st EXCEPT !.units[index] = texture]

\* Color::as_frgba: each channel divided by 255, written <<channel, 255>>
as_frgba(color) == [i \in 1..4 |-> <<color[i], 255>>]

(***************************************************************************)
(* GpuProgram::bind(&self, state)                                          *)
(***************************************************************************)
bind(self, st) ==
    [state |-> set_program(st, self.id),
     calls |-> << Call("State::set_program", <<self.id>>) >>]

Bind ==
    \E i \in Alive :
        LET r == bind(progs[i], state)
        IN  /\ op' = [name |-> "bind", prog |-> i]
            /\ result' = NoResult
            /\ state' = r.state
            /\ lastCalls' = r.calls
            /\ logWritten' = <<>>
            /\ UNCHANGED <<glShaders, glPrograms, progs, locations, nCalls>>

(***************************************************************************)
(* GpuProgram::set_uniform(&self, state, location, value)                  *)
(***************************************************************************)
Val(t, v) == [tag |-> t, v |-> v]

M3 == <<1, 0, 0, 0, 1, 0, 0, 0, 1>>

M4 == <<1, 0, 0, 0, 0, 1, 0, 0, 0, 0, 1, 0, 0, 0, 0, 1>>

Tags == {"Sampler", "Bool", "Integer", "Float", "Vec2", "Vec3", "Vec4", "Color",
         "Mat4", "Mat3", "IntegerArray", "FloatArray", "Vec2Array", "Vec3Array",
         "Vec4Array", "Mat4Array"}

\* the payloads tried for each variant of UniformValue
Payloads(t) ==
    CASE t = "Sampler" ->
           {[index |-> i, texture |-> x] : i \in SamplerIndices, x \in Textures}
      [] t = "Bool" -> BOOLEAN
      [] t = "Integer" -> {-1, 7}
      [] t = "Float" -> {3}
      [] t = "Vec2" -> {<<3, 4>>}
      [] t = "Vec3" -> {<<3, 4, 5>>}
      [] t = "Vec4" -> {<<3, 4, 5, 6>>}
      [] t = "Color" -> {<<255, 0, 128, 255>>}
      [] t = "Mat4" -> {M4}
      [] t = "Mat3" -> {M3}
      [] t = "IntegerArray" -> {<<>>, <<7, 8>>}
      [] t = "FloatArray" -> {<<>>, <<3, 4>>}
      [] t = "Vec2Array" -> {<<>>, << <<3, 4>>, <<5, 6>> >>}
      [] t = "Vec3Array" -> {<<>>, << <<3, 4, 5>> >>}
      [] t = "Vec4Array" -> {<<>>, << <<3, 4, 5, 6>> >>}
      [] t = "Mat4Array" -> {<<>>, <<M4, M4>>}

\* the match with Bool sent as a float and Mat4 sent transposed
upload_coerced(location, value) ==
    LET t == value.tag
        v == value.v
    IN  CASE t = "Sampler" ->
               << Call("Uniform1i", <<location, v.index>>),
                  Call("GpuTexture::bind", <<v.texture, v.index>>) >>
          [] t = "Bool" ->
               << Call("Uniform1f", <<location, IF v THEN 1 ELSE 0>>) >>
          [] t = "Integer" -> << Call("Uniform1i", <<location, v>>) >>
          [] t = "Float" -> << Call("Uniform1f", <<location, v>>) >>
          [] t = "Vec2" -> << Call("Uniform2f", <<location, v[1], v[2]>>) >>
          [] t = "Vec3" -> << Call("Uniform3f", <<location, v[1], v[2], v[3]>>) >>
          [] t = "Vec4" ->
               << Call("Uniform4f", <<location, v[1], v[2], v[3], v[4]>>) >>
          [] t = "IntegerArray" -> << Call("Uniform1iv", <<location, Len(v), v>>) >>
          [] t = "FloatArray" -> << Call("Uniform1fv", <<location, Len(v), v>>) >>
          [] t = "Vec2Array" -> << Call("Uniform2fv", <<location, Len(v), v>>) >>
          [] t = "Vec3Array" -> << Call("Uniform3fv", <<location, Len(v), v>>) >>
          [] t = "Vec4Array" -> << Call("Uniform4fv", <<location, Len(v), v>>) >>
          [] t = "Mat4" ->
               << Call("UniformMatrix4fv", <<location, 1, TRUE, <<v>> >>) >>
          [] t = "Mat3" ->
               << Call("UniformMatrix3fv", <<location, 1, FALSE, <<v>> >>) >>
          [] t = "Mat4Array" ->
               << Call("UniformMatrix4fv", <<location, Len(v), FALSE, v>>) >>
          [] t = "Color" ->
               LET rgba == as_frgba(v)
               IN  << Call("Uniform4f",
                           <<location, rgba[1], rgba[2], rgba[3], rgba[4]>>) >>

\* the match with the integer array sent with a count of 1
upload_fixed_count(location, value) ==
    LET t == value.tag
        v == value.v
    IN  CASE t = "Sampler" ->
               << Call("Uniform1i", <<location, v.index>>),
                  Call("GpuTexture::bind", <<v.texture, v.index>>) >>
          [] t = "Bool" ->
               << Call("Uniform1i", <<location, IF v THEN 1 ELSE 0>>) >>
          [] t = "Integer" -> << Call("Uniform1i", <<location, v>>) >>
          [] t = "Float" -> << Call("Uniform1f", <<location, v>>) >>
          [] t = "Vec2" -> << Call("Uniform2f", <<location, v[1], v[2]>>) >>
          [] t = "Vec3" -> << Call("Uniform3f", <<location, v[1], v[2], v[3]>>) >>
          [] t = "Vec4" ->
               << Call("Uniform4f", <<location, v[1], v[2], v[3], v[4]>>) >>
          [] t = "IntegerArray" -> << Call("Uniform1iv", <<location, 1, v>>) >>
          [] t = "FloatArray" -> << Call("Uniform1fv", <<location, Len(v), v>>) >>
          [] t = "Vec2Array" -> << Call("Uniform2fv", <<location, Len(v), v>>) >>
          [] t = "Vec3Array" -> << Call("Uniform3fv", <<location, Len(v), v>>) >>
          [] t = "Vec4Array" -> << Call("Uniform4fv", <<location, Len(v), v>>) >>
          [] t = "Mat4" ->
               << Call("UniformMatrix4fv", <<location, 1, FALSE, <<v>> >>) >>
          [] t = "Mat3" ->
               << Call("UniformMatrix3fv", <<location, 1, FALSE, <<v>> >>) >>
          [] t = "Mat4Array" ->
               << Call("UniformMatrix4fv", <<location, Len(v), FALSE, v>>) >>
          [] t = "Color" ->
               LET rgba == as_frgba(v)
               IN  << Call("Uniform4f",
                           <<location, rgba[1], rgba[2], rgba[3], rgba[4]>>) >>

\* the match with the sampler's texture bound to unit 0
upload_sampler_unit0(location, value) ==
    LET t == value.tag
        v == value.v
    IN  CASE t = "Sampler" ->
               << Call("Uniform1i", <<location, v.index>>),
                  Call("GpuTexture::bind", <<v.texture, 0>>) >>
          [] t = "Bool" ->
               << Call("Uniform1i", <<location, IF v THEN 1 ELSE 0>>) >>
          [] t = "Integer" -> << Call("Uniform1i", <<location, v>>) >>
          [] t = "Float" -> << Call("Uniform1f", <<location, v>>) >>
          [] t = "Vec2" -> << Call("Uniform2f", <<location, v[1], v[2]>>) >>
          [] t = "Vec3" -> << Call("Uniform3f", <<location, v[1], v[2], v[3]>>) >>
          [] t = "Vec4" ->
               << Call("Uniform4f", <<location, v[1], v[2], v[3], v[4]>>) >>
          [] t = "IntegerArray" -> << Call("Uniform1iv", <<location, Len(v), v>>) >>
          [] t = "FloatArray" -> << Call("Uniform1fv", <<location, Len(v), v>>) >>
          [] t = "Vec2Array" -> << Call("Uniform2fv", <<location, Len(v), v>>) >>
          [] t = "Vec3Array" -> << Call("Uniform3fv", <<location, Len(v), v>>) >>
          [] t = "Vec4Array" -> << Call("Uniform4fv", <<location, Len(v), v>>) >>
          [] t = "Mat4" ->
               << Call("UniformMatrix4fv", <<location, 1, FALSE, <<v>> >>) >>
          [] t = "Mat3" ->
               << Call("UniformMatrix3fv", <<location, 1, FALSE, <<v>> >>) >>
          [] t = "Mat4Array" ->
               << Call("UniformMatrix4fv", <<location, Len(v), FALSE, v>>) >>
          [] t = "Color" ->
               LET rgba == as_frgba(v)
               IN  << Call("Uniform4f",
                           <<location, rgba[1], rgba[2], rgba[3], rgba[4]>>) >>

\* the match on the value: the calls issued after the program is bound
upload(location, value) ==
    LET t == value.tag
        v == value.v
    IN  CASE t = "Sampler" ->
               << Call("Uniform1i", <<location, v.index>>),
                  Call("GpuTexture::bind", <<v.texture, v.index>>) >>
          [] t = "Bool" ->
               << Call("Uniform1i", <<location, IF v THEN 1 ELSE 0>>) >>
          [] t = "Integer" -> << Call("Uniform1i", <<location, v>>) >>
          [] t = "Float" -> << Call("Uniform1f", <<location, v>>) >>
          [] t = "Vec2" -> << Call("Uniform2f", <<location, v[1], v[2]>>) >>
          [] t = "Vec3" -> << Call("Uniform3f", <<location, v[1], v[2], v[3]>>) >>
          [] t = "Vec4" ->
               << Call("Uniform4f", <<location, v[1], v[2], v[3], v[4]>>) >>
          [] t = "IntegerArray" -> << Call("Uniform1iv", <<location, Len(v), v>>) >>
          [] t = "FloatArray" -> << Call("Uniform1fv", <<location, Len(v), v>>) >>
          [] t = "Vec2Array" -> << Call("Uniform2fv", <<location, Len(v), v>>) >>
          [] t = "Vec3Array" -> << Call("Uniform3fv", <<location, Len(v), v>>) >>
          [] t = "Vec4Array" -> << Call("Uniform4fv", <<location, Len(v), v>>) >>
          [] t = "Mat4" ->
               << Call("UniformMatrix4fv", <<location, 1, FALSE, <<v>> >>) >>
          [] t = "Mat3" ->
               << Call("UniformMatrix3fv", <<location, 1, FALSE, <<v>> >>) >>
          [] t = "Mat4Array" ->
               << Call("UniformMatrix4fv", <<location, Len(v), FALSE, v>>) >>
          [] t = "Color" ->
               LET rgba == as_frgba(v)
               IN  << Call("Uniform4f",
                           <<location, rgba[1], rgba[2], rgba[3], rgba[4]>>) >>

\* set_uniform with state.set_program(self.id) after the upload
set_uniform_bind_last(self, st, location, value) ==
    LET bound == set_program(st, self.id)
    IN  [state |-> IF value.tag = "Sampler"
                   THEN texture_bind(bound, value.v.texture, value.v.index)
                   ELSE bound,
         calls |-> upload(location, value)
                   \o << Call("State::set_program", <<self.id>>) >>]

\* set_uniform without state.set_program(self.id)
set_uniform_unbound(self, st, location, value) ==
    LET bound == st
    IN  [state |-> IF value.tag = "Sampler"
                   THEN texture_bind(bound, value.v.texture, value.v.index)
                   ELSE bound,
         calls |-> upload(location, value)]

set_uniform(self, st, location, value) ==
    LET bound == set_program(st, self.id)
    IN  [state |-> IF value.tag = "Sampler"
                   THEN texture_bind(bound, value.v.texture, value.v.index)
                   ELSE bound,
         calls |-> << Call("State::set_program", <<self.id>>) >>
                   \o upload(location, value)]

SetUniformOn(tags) ==
    \E i \in Alive, location \in locations, tag \in tags :
    \E payload \in Payloads(tag) :
        LET value == Val(tag, payload)
            r == set_uniform(progs[i], state, location, value)
        IN  /\ op' = [name |-> "set_uniform", prog |-> i,
                      location |-> location, value |-> value,
                      bound |-> state.program]
            /\ result' = NoResult
            /\ state' = r.state
            /\ lastCalls' = r.calls
            /\ logWritten' = <<>>
            /\ UNCHANGED <<glShaders, glPrograms, progs, locations, nCalls>>

SetUniform == SetUniformOn(Tags)

SetScalarUniform == SetUniformOn({"Integer", "Float"})

(***************************************************************************)
(* impl Drop for GpuProgram: runs once, when the owner releases the value; *)
(* the value and its scratch buffer are gone afterwards.                   *)
(***************************************************************************)
\* a drop that releases the value without the native call
drop_without_delete(self, programs) ==
    [self |-> [self EXCEPT !.alive = FALSE, !.name_buf = <<>>],
     programs |-> programs,
     calls |-> <<>>]

\* a drop that deletes the lowest program name in use instead of its own
drop_lowest(self, programs) ==
    LET lowest == CHOOSE id \in LivePrograms(programs) :
                      \A other \in LivePrograms(programs) : id <= other
    IN  [self |-> [self EXCEPT !.alive = FALSE, !.name_buf = <<>>,
                               !.deletes = self.deletes + 1],
         programs |-> [programs EXCEPT ![lowest] = DeadProgram],
         calls |-> << Call("DeleteProgram", <<lowest>>) >>]

drop(self, programs) ==
    [self |-> [self EXCEPT !.alive = FALSE, !.name_buf = <<>>,
                           !.deletes = self.deletes + 1],
     programs |-> [programs EXCEPT ![self.id] = DeadProgram],
     calls |-> << Call("DeleteProgram", <<self.id>>) >>]

Drop ==
    \E i \in Alive :
        LET r == drop(progs[i], glPrograms)
        IN  /\ op' = [name |-> "drop", prog |-> i]
            /\ result' = NoResult
            /\ progs' = [progs EXCEPT ![i] = r.self]
            /\ glPrograms' = r.programs
            /\ lastCalls' = r.calls
            /\ logWritten' = <<>>
            /\ UNCHANGED <<glShaders, locations, state, nCalls>>

(***************************************************************************)
(* Programs built, queried, bound, fed and dropped by the engine.          *)
(***************************************************************************)
Next ==
    \/ FromGoodSource
    \/ UniformLocation
    \/ Bind
    \/ SetScalarUniform
    \/ Drop

Spec == Init /\ [][Next]_vars

(***************************************************************************)
(* Programs built from arbitrary sources and dropped.                      *)
(***************************************************************************)
NextLink ==
    \/ FromSource
    \/ Drop

SpecLink == Init /\ [][NextLink]_vars

(***************************************************************************)
(* Linked programs fed uniform values of every variant.                    *)
(***************************************************************************)
NextUpload ==
    \/ FromLinkedSource
    \/ ResolveUniform
    \/ SetUniform

SpecUpload == Init /\ [][NextUpload]_vars

(***************************************************************************)
(* Properties.                                                             *)
(***************************************************************************)
IsCall(k, f) == k \in DOMAIN lastCalls /\ lastCalls[k].fn = f

LinkFailed == op.name = "from_source" /\ result.kind = "ShaderLinkingFailed"

\* both stages of the last from_source call were prepared and compiled
BothCompiled ==
    /\ Prepares(op.vertex_source) /\ op.env.vStatus = 1
    /\ Prepares(op.fragment_source) /\ op.env.fStatus = 1

\* C1: when linking fails, the program object that from_source created is
\* deleted before ShaderLinkingFailed is returned: it is not allocated after
\* the call.
C1_FailedLinkDeletesProgram ==
    LinkFailed =>
        \A k \in DOMAIN lastCalls :
            IsCall(k, "CreateProgram") => ~glPrograms[lastCalls[k].args[1]].live

\* the calls of the last operation that name a program handle
HandlesUsed ==
    {lastCalls[k].args[1] :
        k \in {j \in DOMAIN lastCalls :
                 lastCalls[j].fn \in {"State::set_program", "GetUniformLocation",
                                      "DeleteProgram"}}}

\* C2: for every Program returned by from_source, whatever lookups, binds,
\* uploads and drops happen, DeleteProgram is issued for its handle exactly
\* once, at destruction (never before, never twice), and no call uses the
\* handle of a Program after it was deleted.
C2_DeletedExactlyOnce ==
    /\ \A i \in 1..Len(progs) :
          progs[i].deletes = (IF progs[i].alive THEN 0 ELSE 1)
    /\ \A i \in Alive : glPrograms[progs[i].id].live
    /\ op.name \in {"uniform_location", "bind", "set_uniform"} =>
          /\ op.prog \in Alive
          /\ HandlesUsed = {progs[op.prog].id}
          /\ \A k \in DOMAIN lastCalls : lastCalls[k].fn # "DeleteProgram"
    /\ op.name = "set_uniform" => glPrograms[state.program].live
    /\ op.name = "drop" =>
          /\ lastCalls = << Call("DeleteProgram", <<progs[op.prog].id>>) >>
          /\ ~progs[op.prog].alive
          /\ ~glPrograms[progs[op.prog].id].live

\* a Program was dropped and another one is fed a uniform afterwards
C2_Witness ==
    /\ op.name = "set_uniform"
    /\ \E i \in 1..Len(progs) : ~progs[i].alive /\ progs[i].deletes = 1

\* C3: from_source returns a Program exactly when both stages compiled and
\* the link status is success; in every other case it returns an error, and
\* no Program wraps a handle that failed to link.
C3_ConstructionAtomic ==
    /\ op.name = "from_source" =>
          /\ result.kind = "Ok" <=> (BothCompiled /\ op.env.linkStatus = 1)
          /\ result.kind # "Ok" =>
                result.kind \in {"ShaderCompilationFailed", "ShaderLinkingFailed",
                                 "EncodingError"}
    /\ \A i \in Alive : glPrograms[progs[i].id].linked

\* C4: when linking fails, the error carries the program name and the text
\* the linker reported: the info log of the queried length.
C4_LinkErrorCarriesLog ==
    LinkFailed =>
        /\ result.name = op.program_name
        /\ result.message =
              (IF op.env.linkLog = <<>> THEN <<>> ELSE Append(op.env.linkLog, NUL))

\* a log entry that names the failed shader or program and gives the message
DescribesFailure(entry) ==
    /\ Len(entry) = 4
    /\ entry[2] = result.name
    /\ entry[4] = result.message

\* C5: whenever from_source fails with ShaderCompilationFailed or with
\* ShaderLinkingFailed, an entry describing the failure has been written to
\* the process log.
C5_FailureLogged ==
    (op.name = "from_source"
       /\ result.kind \in {"ShaderCompilationFailed", "ShaderLinkingFailed"}) =>
        \E k \in DOMAIN logWritten : DescribesFailure(logWritten[k])

CompileFailed ==
    op.name = "create_shader" /\ Prepares(op.source) /\ op.status = 0

\* C6 as stated: for a stage whose compile status is failure, create_shader
\* returns ShaderCompilationFailed with the stage name it was given and the
\* non-empty diagnostic message of the queried length, and no stage handle.
C6_CompileErrorNonEmpty ==
    CompileFailed =>
        /\ result.kind = "ShaderCompilationFailed"
        /\ result.name = op.stage
        /\ Len(result.message) = InfoLogLength(op.infoLog)
        /\ result.message # <<>>
        /\ result.value = <<>>

\* C6, amended: for a stage whose compile status is failure, create_shader
\* returns ShaderCompilationFailed with the stage name it was given and a
\* message of exactly the queried log length, the log text followed by its
\* terminating zero, which is empty when the driver reports no log; it
\* returns no stage handle.
C6_CompileErrorCarriesLog ==
    CompileFailed =>
        /\ result.kind = "ShaderCompilationFailed"
        /\ result.name = op.stage
        /\ Len(result.message) = InfoLogLength(op.infoLog)
        /\ result.message =
              (IF op.infoLog = <<>> THEN <<>> ELSE Append(op.infoLog, NUL))
        /\ result.value = <<>>

\* a failed compilation whose log has text
C6_Witness ==
    /\ CompileFailed
    /\ Len(op.infoLog) = MaxLogLen
    /\ result.kind = "ShaderCompilationFailed"

\* C7: prepare_source_code returns the null-terminated buffer or fails with
\* EncodingError, the latter exactly when the combined text holds a zero
\* byte; there is no other outcome.
C7_PrepareTotal ==
    op.name = "prepare_source_code" =>
        /\ result.kind \in {"Ok", "EncodingError"}
        /\ result.kind = "EncodingError" <=> Contains(shared \o op.code, NUL)
        /\ result.kind = "Ok" => result.value[Len(result.value)] = NUL

\* the end of the line that holds the last '#' of s: the index of the first
\* line end at or after it, the end of the text if there is none
EndOfDirectives(s) ==
    LET last == CHOOSE i \in 1..Len(s) : s[i] = HASH /\ \A j \in (i + 1)..Len(s) : s[j] # HASH
        ends == {i \in last..Len(s) : s[i] = NL}
    IN  IF ends = {} THEN Len(s)
        ELSE CHOOSE i \in ends : \A j \in ends : i <= j

\* the text the shared block is to be injected into s as
Injected(s) ==
    IF Contains(s, HASH)
    THEN SubSeq(s, 1, EndOfDirectives(s)) \o shared
            \o SubSeq(s, EndOfDirectives(s) + 1, Len(s))
    ELSE shared \o s

\* C8: for every source text, the prepared text is the source with the
\* shared block inserted right after the end of the line that holds the last
\* '#', or the shared block followed by the source if it has no '#'.
C8_SharedBlockInjected ==
    (op.name = "prepare_source_code" /\ ~Contains(op.code, NUL)) =>
        result = Ok(Append(Injected(op.code), NUL))

\* the location the driver gives for a name in a fresh buffer
FreshLocation(program, name) ==
    GetUniformLocation(glPrograms, program, Append(name, NUL))

\* C9: uniform_location on a name for which the driver returns a negative
\* location fails with UnableToFindShaderUniform carrying the name, hands
\* out no UniformLocation and leaves the graphics State as it was.
C9_AbsentUniform ==
    [][(op'.name = "uniform_location"
          /\ FreshLocation(progs[op'.prog].id, op'.uniform) < 0) =>
         /\ result' = Err("UnableToFindShaderUniform", op'.uniform, <<>>)
         /\ locations' = locations
         /\ state' = state]_vars

\* an absent name was looked up while a program was bound
C9_Witness ==
    /\ op.name = "uniform_location"
    /\ result.kind = "UnableToFindShaderUniform"
    /\ state.program # 0

\* C10: whatever was looked up before on the same Program, the bytes given
\* to the driver are the name's bytes and one terminating zero, and the
\* result is the one of a lookup through a fresh buffer, so that the same
\* name always resolves to the same location.
C10_LookupDependsOnNameOnly ==
    op.name = "uniform_location" =>
        LET id == FreshLocation(progs[op.prog].id, op.uniform)
        IN  /\ lastCalls = << Call("GetUniformLocation",
                                   <<progs[op.prog].id, Append(op.uniform, NUL)>>) >>
            /\ result = (IF id < 0
                         THEN Err("UnableToFindShaderUniform", op.uniform, <<>>)
                         ELSE Ok(id))

\* a present name is resolved after a longer name left its bytes in the
\* scratch buffer
C10_Witness ==
    /\ op.name = "uniform_location"
    /\ Len(op.name_buf) > Len(op.uniform) + 1
    /\ result.kind = "Ok"

UploadFns ==
    {"Uniform1i", "Uniform1f", "Uniform2f", "Uniform3f", "Uniform4f",
     "Uniform1iv", "Uniform1fv", "Uniform2fv", "Uniform3fv", "Uniform4fv",
     "UniformMatrix3fv", "UniformMatrix4fv"}

IsUpload(c) == c.fn \in UploadFns

\* the upload calls of the last operation, in order
UploadCalls == SelectSeq(lastCalls, IsUpload)

SetOf(tag) == op.name = "set_uniform" /\ op.value.tag = tag

BindOfCaller == Call("State::set_program", <<progs[op.prog].id>>)

\* C11: set_uniform with Integer(v) binds the calling Program first and then
\* issues exactly one Uniform1i to the location with the value v, and no
\* other upload.
C11_IntegerUpload ==
    SetOf("Integer") =>
        lastCalls = << BindOfCaller, Call("Uniform1i", <<op.location, op.value.v>>) >>

C11_Witness == SetOf("Integer") /\ op.value.v = 7 /\ Len(lastCalls) = 2

\* C12: set_uniform with Sampler{index: i, texture: T} binds the program,
\* uploads the integer i to the location and then asks T once to bind itself
\* to unit i, in that order.
C12_SamplerUpload ==
    SetOf("Sampler") =>
        /\ lastCalls =
              << BindOfCaller,
                 Call("Uniform1i", <<op.location, op.value.v.index>>),
                 Call("GpuTexture::bind", <<op.value.v.texture, op.value.v.index>>) >>
        /\ state.units[op.value.v.index] = op.value.v.texture

C12_Witness ==
    /\ SetOf("Sampler")
    /\ op.value.v.index = 2
    /\ state.units[2] = op.value.v.texture

ArrayTags ==
    {"IntegerArray", "FloatArray", "Vec2Array", "Vec3Array", "Vec4Array", "Mat4Array"}

\* the elements the driver stores for an array upload: the first count ones
Stored(c) == SubSeq(c.args[Len(c.args)], 1, c.args[2])

\* C13: for every array variant, set_uniform does not fail and issues one
\* upload call whose count is the length of the array; for an empty array the
\* count is 0 and the driver stores no value.
C13_ArrayCount ==
    (op.name = "set_uniform" /\ op.value.tag \in ArrayTags) =>
        /\ result = NoResult
        /\ Len(UploadCalls) = 1
        /\ UploadCalls[1].args[2] = Len(op.value.v)
        /\ Stored(UploadCalls[1]) = op.value.v
        /\ op.value.v = <<>> =>
              UploadCalls[1].args[2] = 0 /\ Stored(UploadCalls[1]) = <<>>

C13_Witness ==
    /\ SetOf("IntegerArray")
    /\ op.value.v = <<>>
    /\ Len(UploadCalls) = 1

\* the calls that name a program object by their first argument
ProgramFns ==
    {"CreateProgram", "AttachShader", "LinkProgram", "GetProgramiv",
     "GetProgramInfoLog", "DeleteProgram", "GetUniformLocation",
     "State::set_program"}

\* C14: Programs are independent: the handles of the live Programs are
\* pairwise distinct, and a from_source call, successful or not, or the drop
\* of one Program issues no call on the handle of another existing Program
\* and changes neither that Program nor its native object.
C14_ProgramsIndependent ==
    [][op'.name \in {"from_source", "drop"} =>
         LET others == Alive \ (IF op'.name = "drop" THEN {op'.prog} ELSE {})
         IN  /\ \A i \in others :
                   /\ progs'[i] = progs[i]
                   /\ glPrograms'[progs[i].id] = glPrograms[progs[i].id]
             /\ \A k \in DOMAIN lastCalls' :
                   lastCalls'[k].fn \in ProgramFns =>
                       lastCalls'[k].args[1] \notin {progs[i].id : i \in others}
             /\ \A i, j \in Alive' : i # j => progs'[i].id # progs'[j].id]_vars

\* a second Program was built while the first one is alive
C14_Witness ==
    /\ op.name = "from_source"
    /\ result.kind = "Ok"
    /\ Cardinality(Alive) = 2

\* the shader objects the last operation created
ShadersCreated ==
    {lastCalls[k].args[2] :
        k \in {j \in DOMAIN lastCalls : lastCalls[j].fn = "CreateShader"}}

\* C15: when from_source returns, with a Program or with any error, every
\* shader object it created has been deleted.
C15_NoStageLeft ==
    op.name = "from_source" => ShadersCreated \cap glShaders = {}

\* the positions of the call of f with the arguments a in the last operation
Pos(f, a) ==
    {k \in DOMAIN lastCalls : lastCalls[k].fn = f /\ lastCalls[k].args = a}

PosOf(f) == {k \in DOMAIN lastCalls : lastCalls[k].fn = f}

\* every position of S is before every position of T
Before(S, T) == \A i \in S, j \in T : i < j

\* C17: when both stages compile, from_source creates the program, attaches
\* each stage, deletes each stage handle exactly once and only after it was
\* attached, then links, then reads the link status; both deletions come
\* before the link, whether the link succeeds or fails.
C17_LinkOrder ==
    (op.name = "from_source" /\ BothCompiled) =>
        \E p \in ProgramIds, v, f \in ShadersCreated :
            /\ v # f
            /\ PosOf("CreateProgram") = Pos("CreateProgram", <<p>>)
            /\ Cardinality(PosOf("CreateProgram")) = 1
            /\ Cardinality(Pos("AttachShader", <<p, v>>)) = 1
            /\ Cardinality(Pos("AttachShader", <<p, f>>)) = 1
            /\ Cardinality(PosOf("AttachShader")) = 2
            /\ Cardinality(Pos("DeleteShader", <<v>>)) = 1
            /\ Cardinality(Pos("DeleteShader", <<f>>)) = 1
            /\ Cardinality(PosOf("DeleteShader")) = 2
            /\ Cardinality(PosOf("LinkProgram")) = 1
            /\ PosOf("LinkProgram") = Pos("LinkProgram", <<p>>)
            /\ Cardinality(Pos("GetProgramiv", <<p, "LINK_STATUS">>)) = 1
            /\ Before(PosOf("CreateProgram"), PosOf("AttachShader"))
            /\ Before(Pos("AttachShader", <<p, v>>), Pos("DeleteShader", <<v>>))
            /\ Before(Pos("AttachShader", <<p, f>>), Pos("DeleteShader", <<f>>))
            /\ Before(PosOf("DeleteShader"), PosOf("LinkProgram"))
            /\ Before(PosOf("LinkProgram"), Pos("GetProgramiv", <<p, "LINK_STATUS">>))

\* both stages compiled and the link failed
C17_Witness ==
    /\ LinkFailed
    /\ PosOf("LinkProgram") # {}
    /\ PosOf("GetProgramInfoLog") # {}

\* C18: from_source stops at the first failing stage: if the vertex stage
\* fails to prepare or compile, no fragment stage is created and no program
\* object is created; if the fragment stage fails, no program object is
\* created; the error returned is the one of the first failing step and
\* carries the name of that stage.
C18_AbortAtFirstFailure ==
    op.name = "from_source" =>
        LET vOk == Prepares(op.vertex_source) /\ op.env.vStatus = 1
            fOk == Prepares(op.fragment_source) /\ op.env.fStatus = 1
            errors == {"ShaderCompilationFailed", "EncodingError"}
        IN  /\ ~vOk =>
                  /\ \A k \in PosOf("CreateShader") :
                         lastCalls[k].args[1] # "FRAGMENT_SHADER"
                  /\ Cardinality(PosOf("CreateShader")) <= 1
                  /\ PosOf("CreateProgram") = {}
                  /\ result.kind \in errors
                  /\ result.name = op.program_name \o "_VertexShader"
            /\ (vOk /\ ~fOk) =>
                  /\ PosOf("CreateProgram") = {}
                  /\ result.kind \in errors
                  /\ result.name = op.program_name \o "_FragmentShader"

\* C16: in any interleaving of set_uniform calls on several Programs that
\* share one graphics state, every upload is issued while the state's current
\* program is the Program the call was made on, whatever was bound before:
\* the call binds its Program first, binds nothing else, and then uploads.
C16_UploadsOnCaller ==
    op.name = "set_uniform" =>
        /\ Len(lastCalls) >= 2
        /\ lastCalls[1].fn = "State::set_program"
        /\ lastCalls[1].args = <<progs[op.prog].id>>
        /\ \A k \in 2..Len(lastCalls) : lastCalls[k].fn # "State::set_program"
        /\ \E k \in 2..Len(lastCalls) : IsUpload(lastCalls[k])
        /\ state.program = progs[op.prog].id

\* a set_uniform on one Program while another Program was the current one
C16_Witness ==
    /\ op.name = "set_uniform"
    /\ op.bound \notin {0, progs[op.prog].id}
    /\ state.program = progs[op.prog].id

\* C19: every UniformLocation that exists holds a non-negative native
\* location, so over any sequence of lookups and uploads set_uniform never
\* issues an upload call with a negative location.
C19_LocationsNonNegative ==
    /\ \A l \in locations : l >= 0
    /\ op.name = "set_uniform" =>
           \A k \in DOMAIN lastCalls :
               IsUpload(lastCalls[k]) => lastCalls[k].args[1] >= 0

\* an upload to a location a lookup has returned
C19_Witness ==
    /\ op.name = "set_uniform"
    /\ op.location \in locations
    /\ Len(UploadCalls) = 1
    /\ UploadCalls[1].args[1] = op.location

\* the entry point of each variant
EntryPoint(tag) ==
    CASE tag \in {"Sampler", "Bool", "Integer"} -> "Uniform1i"
      [] tag = "Float" -> "Uniform1f"
      [] tag = "Vec2" -> "Uniform2f"
      [] tag = "Vec3" -> "Uniform3f"
      [] tag \in {"Vec4", "Color"} -> "Uniform4f"
      [] tag = "IntegerArray" -> "Uniform1iv"
      [] tag = "FloatArray" -> "Uniform1fv"
      [] tag = "Vec2Array" -> "Uniform2fv"
      [] tag = "Vec3Array" -> "Uniform3fv"
      [] tag = "Vec4Array" -> "Uniform4fv"
      [] tag = "Mat3" -> "UniformMatrix3fv"
      [] tag \in {"Mat4", "Mat4Array"} -> "UniformMatrix4fv"

\* a colour channel as a fraction of 255
Normalized(channel) == <<channel, 255>>

\* C20: set_uniform issues exactly one upload call for a value, through the
\* entry point of its variant and without coercion: Bool uploads the integer
\* 1 for true and 0 for false; Integer and Float upload the value; Vec2, Vec3
\* and Vec4 upload their components in order; Color uploads its four
\* normalized channels; Mat3 and Mat4 upload one matrix with the transpose
\* flag false; the array variants use the array entry point of their element
\* type, Mat4Array with the transpose flag false.
C20_UploadMatchesTag ==
    op.name = "set_uniform" =>
        /\ Len(UploadCalls) = 1
        /\ UploadCalls[1].fn = EntryPoint(op.value.tag)
        /\ UploadCalls[1].args[1] = op.location
        /\ LET t == op.value.tag
               v == op.value.v
               data == Tail(UploadCalls[1].args)
           IN  CASE t = "Sampler" -> data = <<v.index>>
                 [] t = "Bool" -> /\ v => data = <<1>>
                                  /\ ~v => data = <<0>>
                 [] t \in {"Integer", "Float"} -> data = <<v>>
                 [] t \in {"Vec2", "Vec3", "Vec4"} -> data = v
                 [] t = "Color" ->
                        data = <<Normalized(v[1]), Normalized(v[2]),
                                 Normalized(v[3]), Normalized(v[4])>>
                 [] t \in {"Mat3", "Mat4"} -> data = <<1, FALSE, <<v>> >>
                 [] t = "Mat4Array" -> data = <<Len(v), FALSE, v>>
                 [] OTHER -> data = <<Len(v), v>>

\* one matrix was uploaded untransposed
C20_Witness ==
    /\ SetOf("Mat4")
    /\ Len(UploadCalls) = 1
    /\ UploadCalls[1].args[3] = FALSE

====
